---- MODULE Spec2Model ----
(***************************************************************************)
(* Client-side session/token lifecycle of the anime-recommendation front   *)
(* end: the API client (token store, request/response interceptors,        *)
(* refresh-and-replay, handleError) and the AuthProvider (checkAuth,       *)
(* login, signup, logout, refreshToken, isAuthenticated).                  *)
(*                                                                         *)
(* JavaScript values are modelled as follows.  A string that is absent,    *)
(* null or '' is the empty string "" (all three are falsy and the code     *)
(* only ever tests them with ||, && and if).  A message text is a sequence *)
(* of words, so that String.includes is a real search; the absent text is  *)
(* the empty sequence.  An optional object is a record with a field `has`. *)
(***************************************************************************)
EXTENDS Integers, Sequences, FiniteSets, TLC

\* ------------------------------------------------------------------ bounds
\* Cap on the transmissions of one original request (first send + replays).
MaxSends == 3
\* Cap on the invocations of one guarded operation that are in flight at once.
MaxInFlight == 2
\* Cap on the operations (of any kind) that are in flight at once.
MaxConcurrent == 2

\* ------------------------------------------------------------ JS primitives
Truthy(s) == s # ""
\* a || b on strings
Or(a, b) == IF Truthy(a) THEN a ELSE b
NoText == << >>
\* a || b on message texts
OrText(a, b) == IF a # NoText THEN a ELSE b
\* String.prototype.includes, on word sequences
Includes(text, sub) ==
    \E i \in 0..(Len(text) - Len(sub)) :
        \A j \in 1..Len(sub) : text[i + j] = sub[j]

\* ------------------------------------------------------------- JSON shapes
NoTokens == [has |-> FALSE, accessToken |-> ""]
TokenPair(t) == [has |-> TRUE, accessToken |-> t]
NoUser == [has |-> FALSE, _id |-> "", id |-> "", email |-> "", username |-> ""]
NoInner == [has |-> FALSE, user |-> NoUser, tokens |-> NoTokens]
NoData ==
    [has |-> FALSE, accessToken |-> "", _id |-> "", id |-> "", email |-> "",
     username |-> "", user |-> NoUser, tokens |-> NoTokens, data |-> NoInner,
     error |-> NoText]
EmptyData == [NoData EXCEPT !.has = TRUE]
EmptyBody ==
    [accessToken |-> "", user |-> NoUser, tokens |-> NoTokens,
     data |-> NoData, error |-> NoText, success |-> FALSE, message |-> NoText]
OkBody == [EmptyBody EXCEPT !.success = TRUE]

\* The three layouts of a login/signup success payload.
NestedBody(u, t) ==
    [OkBody EXCEPT !.data = [EmptyData EXCEPT !.user = u, !.tokens = t]]
FlatBody(u, t) ==
    [OkBody EXCEPT !.data = [EmptyData EXCEPT !._id = u._id, !.id = u.id,
                              !.email = u.email, !.username = u.username,
                              !.tokens = t]]
DeepBody(u, t) ==
    [OkBody EXCEPT !.data = [EmptyData EXCEPT
                              !.data = [has |-> TRUE, user |-> u, tokens |-> t]]]
Layouts == {"nested", "flat", "deep"}
LayoutBody(l, u, t) ==
    CASE l = "nested" -> NestedBody(u, t)
      [] l = "flat" -> FlatBody(u, t)
      [] OTHER -> DeepBody(u, t)

\* ------------------------------------------------------------ input domains
TokenPairs == {NoTokens} \cup {TokenPair(t) : t \in {"t2"}}
\* User objects as a backend sends them: the identifier under _id or under id.
ServerUsers ==
    {[has |-> TRUE, _id |-> "a", id |-> "", email |-> "a@x", username |-> "ann"],
     [has |-> TRUE, _id |-> "", id |-> "b", email |-> "b@x", username |-> "bob"]}

TokenExpired == <<"Token", "expired">>
BadCredentials == <<"Invalid", "credentials">>
NoTokenTexts ==
    {<<"No", "refresh", "token">>, <<"No", "token">>,
     <<"Token", "not", "found">>, <<"Not", "authenticated">>,
     <<"Error:", "No", "token", "provided">>}
\* a JSON value that is truthy and not a string (an object, a number)
NotAString == <<"[object Object]">>
ErrBody(e) == [EmptyBody EXCEPT !.error = e]
MsgBody(m) == [EmptyBody EXCEPT !.message = m]

\* 2xx bodies
SuccessBodies ==
    {LayoutBody(l, u, t) : l \in Layouts, u \in ServerUsers, t \in TokenPairs}
NoUserBodies ==
    {OkBody,
     [OkBody EXCEPT !.data = EmptyData],
     [OkBody EXCEPT !.data = [EmptyData EXCEPT !.email = "a@x"]],
     [OkBody EXCEPT !.data = [EmptyData EXCEPT !.error = BadCredentials]]}
FalseBodies ==
    {EmptyBody, ErrBody(BadCredentials)}
      \cup {[NestedBody(u, NoTokens) EXCEPT !.success = FALSE] : u \in ServerUsers}
TokenBodies ==
    {[OkBody EXCEPT !.tokens = TokenPair("t1")],
     [OkBody EXCEPT !.data = [EmptyData EXCEPT !.accessToken = "t1"]],
     [OkBody EXCEPT !.accessToken = "t1"],
     [OkBody EXCEPT !.data = [EmptyData EXCEPT !.tokens = TokenPair("t1")]]}
\* bodies with different tokens in two places
TwoTokenBodies ==
    {[OkBody EXCEPT !.data = [EmptyData EXCEPT !.tokens = TokenPair("t1")],
                    !.tokens = TokenPair("t2")],
     [OkBody EXCEPT !.tokens = TokenPair("t1"),
                    !.data = [EmptyData EXCEPT !.accessToken = "t2"]],
     [OkBody EXCEPT !.data = [EmptyData EXCEPT !.accessToken = "t1"],
                    !.accessToken = "t2"]}
\* a body that reports failure and still holds a token
FalseTokenBody == [ErrBody(BadCredentials) EXCEPT !.accessToken = "t2"]
Bodies ==
    SuccessBodies \cup NoUserBodies \cup FalseBodies \cup TokenBodies
      \cup TwoTokenBodies

\* error responses: [status, body]
Statuses == {400, 401, 403, 404, 500}
ErrorBodies ==
    {ErrBody(e) : e \in NoTokenTexts \cup {NoText, TokenExpired}}
      \cup {MsgBody(BadCredentials), MsgBody(<<"No", "token">>),
            MsgBody(NotAString)}
ErrorResponses ==
    {[status |-> 401, body |-> b] : b \in ErrorBodies}
      \cup {[status |-> s, body |-> b] :
              s \in Statuses \ {401},
              b \in {EmptyBody, ErrBody(BadCredentials), MsgBody(BadCredentials)}}
      \cup {[status |-> 403, body |-> FalseTokenBody]}

\* --------------------------------------------------------------- constants
Ops == {"checkAuth", "login", "signup", "logout", "refreshToken", "request"}
GuardedOps == {"checkAuth", "login", "signup"}
Forms == {"login", "signup"}

NoAuthResponse ==
    [user |-> NoUser, tokens |-> NoTokens, error |-> NoText,
     success |-> FALSE]
NoError == [message |-> NoText, status |-> 0, body |-> EmptyBody,
            kind |-> "none"]
IdleReq ==
    [error |-> NoError, st |-> "idle", retry |-> FALSE, sends |-> 0,
     refreshes |-> 0, authorization |-> ""]
IdleCall == [phase |-> "idle", authResponse |-> NoAuthResponse]
NoRet == [body |-> EmptyBody, op |-> "none", how |-> "none",
          auth |-> NoAuthResponse]
NoWire == [status |-> 0, body |-> EmptyBody, kind |-> "none", sends |-> 0,
           refreshes |-> 0, op |-> "none", on |-> "none"]

\* message texts of the source
LoginInProgress == <<"Login already in progress">>
SignupInProgress == <<"Signup already in progress">>
LoginNoUser ==
    <<"Login successful but no user data received. Check console for response structure.">>
SignupNoUser == <<"Signup failed - no user data received">>
LoginFailed == <<"Login failed">>
SignupFailed == <<"Signup failed">>
AuthRequired == <<"Authentication required. Please log in.">>
Forbidden == <<"Access forbidden. You may not have permission.">>
RouteNotFound == <<"Route not found. The backend endpoint may not be implemented.">>
ServerError == <<"Server error. Please check backend logs.">>
NoServerResponse ==
    <<"No response from server. Please check your connection and ensure the backend is running.">>
UnexpectedError == <<"An unexpected error occurred">>
IncludesNotAFunction == <<"errorMessage?.includes is not a function">>
HttpStatus(status) == <<"HTTP", ToString(status)>>

\* ------------------------------------ validation/schemas.ts: syncRequestSchema
\* A JSON value of a request body: undefined (key absent), a string (its
\* characters), a number (in tenths, so that 1.5 is 15) or a boolean.
Undefined == [type |-> "undefined", chars |-> << >>, tenths |-> 0]
Str(t) == [type |-> "string", chars |-> t, tenths |-> 0]
Num(t) == [type |-> "number", chars |-> << >>, tenths |-> t]
True == [type |-> "boolean", chars |-> << >>, tenths |-> 10]
\* JavaScript truthiness of a value
JsTruthy(v) ==
    CASE v.type = "string" -> v.chars # << >>
      [] v.type = "number" -> v.tenths # 0
      [] v.type = "boolean" -> v.tenths # 0
      [] OTHER -> FALSE

\* messages of the schema and of the route
CannotProvideBoth == <<"Cannot provide both username and userId">>
EitherMustBeProvided ==
    <<"Either username or userId must be provided to sync a public profile">>
ApiKeyNeeded ==
    <<"Either username or userId must be provided, or an API key must be stored for syncing your own profile">>
SyncFailed == <<"Failed to sync anime list">>
\* messages of the validation library
ExpectedType(t, v) == <<"Expected", t, "received", v.type>>
TooShort == <<"String must contain at least 1 character(s)">>
TooLong == <<"String must contain at most 50 character(s)">>
NotInteger == <<"Expected integer, received float">>
NotPositive == <<"Number must be greater than 0">>

\* z.string().min(1).max(50).optional(): the issues it raises
StringIssues(v) ==
    IF v.type = "undefined" THEN << >>
    ELSE IF v.type # "string" THEN <<ExpectedType("string", v)>>
    ELSE (IF Len(v.chars) < 1 THEN <<TooShort>> ELSE << >>)
           \o (IF Len(v.chars) > 50 THEN <<TooLong>> ELSE << >>)
\* z.number().int().positive().optional()
NumberIssues(v) ==
    IF v.type = "undefined" THEN << >>
    ELSE IF v.type # "number" THEN <<ExpectedType("number", v)>>
    ELSE (IF v.tenths % 10 # 0 THEN <<NotInteger>> ELSE << >>)
           \o (IF v.tenths <= 0 THEN <<NotPositive>> ELSE << >>)
\* z.boolean().optional()
BooleanIssues(v) ==
    IF v.type \in {"undefined", "boolean"} THEN << >>
    ELSE <<ExpectedType("boolean", v)>>
\* a value of the wrong type ends the parse: no transform, no refinement
WrongType(v, t) == v.type \notin {"undefined", t}

\* the second refinement is missing
syncRequestSchemaOneRefine(body) ==
    LET base == BooleanIssues(body.force) \o StringIssues(body.username)
                  \o StringIssues(body.anilistUsername)
                  \o NumberIssues(body.userId)
        aborted == \/ WrongType(body.force, "boolean")
                   \/ WrongType(body.username, "string")
                   \/ WrongType(body.anilistUsername, "string")
                   \/ WrongType(body.userId, "number")
        data == IF base = << >> /\ JsTruthy(body.anilistUsername)
                     /\ ~JsTruthy(body.username)
                THEN [body EXCEPT !.username = body.anilistUsername]
                ELSE body
        both == IF ~aborted /\ ~(~JsTruthy(data.username) \/ ~JsTruthy(data.userId))
                THEN <<CannotProvideBoth>> ELSE << >>
        issues == base \o both
    IN  [data |-> data, success |-> issues = << >>, issues |-> issues]

\* syncRequestSchema.parse(body): object, transform, refine, refine
syncRequestSchema(body) ==
    LET base == BooleanIssues(body.force) \o StringIssues(body.username)
                  \o StringIssues(body.anilistUsername)
                  \o NumberIssues(body.userId)
        aborted == \/ WrongType(body.force, "boolean")
                   \/ WrongType(body.username, "string")
                   \/ WrongType(body.anilistUsername, "string")
                   \/ WrongType(body.userId, "number")
        data == IF base = << >> /\ JsTruthy(body.anilistUsername)
                     /\ ~JsTruthy(body.username)
                THEN [body EXCEPT !.username = body.anilistUsername]
                ELSE body
        both == IF ~aborted /\ ~(~JsTruthy(data.username) \/ ~JsTruthy(data.userId))
                THEN <<CannotProvideBoth>> ELSE << >>
        neither == IF ~aborted /\ ~(JsTruthy(data.username) \/ JsTruthy(data.userId))
                   THEN <<EitherMustBeProvided>> ELSE << >>
        issues == base \o both \o neither
    IN  [data |-> data, success |-> issues = << >>, issues |-> issues]

\* request bodies of POST /api/anilist/sync
LongName == [i \in 1..51 |-> "x"]
\* request bodies: each field absent, well formed, or malformed
SyncBodies ==
    {[username |-> u, force |-> f, anilistUsername |-> a, userId |-> i] :
        u \in {Undefined, Str(<<"a", "n", "n">>), Str(<< >>), Str(LongName),
               Num(70)},
        f \in {Undefined, True},
        a \in {Undefined, Str(<<"b", "o", "b">>), Str(<< >>)},
        i \in {Undefined, Num(50), Num(0), Num(15), Str(<<"5">>)}}
NoSyncBody ==
    [username |-> Undefined, force |-> Undefined, anilistUsername |-> Undefined,
     userId |-> Undefined]
\* the route handler: no request yet
IdleSync ==
    [error |-> NoText, status |-> 0, body |-> NoSyncBody, phase |-> "idle",
     calls |-> 0]

\* ------------------------------------------------ ChatProvider (timestamps)
\* A JavaScript value of a history entry's createdAt or timestamp. A number
\* holds an integer: a sign and a magnitude in base-1000 digits, least
\* significant first, with no leading zero digit. Integers below 2^53 are
\* exact in a double, and v * 1000 is only computed for v <= 10^12.
JsUndefined ==
    [type |-> "undefined", chars |-> << >>, neg |-> FALSE, mag |-> << >>]
JsString(chars) ==
    [type |-> "string", chars |-> chars, neg |-> FALSE, mag |-> << >>]
JsNumber(neg, mag) ==
    [type |-> "number", chars |-> << >>, neg |-> neg, mag |-> mag]
\* a Date object with a finite time value, in milliseconds
DateOf(neg, mag) ==
    [type |-> "Date", chars |-> << >>, neg |-> neg, mag |-> mag]
\* a Date object whose time value is NaN
InvalidDate ==
    [type |-> "Invalid Date", chars |-> << >>, neg |-> FALSE, mag |-> << >>]

RECURSIVE MagGreater(_, _)
MagGreater(a, b) ==
    IF Len(a) # Len(b) THEN Len(a) > Len(b)
    ELSE IF a = << >> THEN FALSE
    ELSE IF a[Len(a)] # b[Len(b)] THEN a[Len(a)] > b[Len(b)]
    ELSE MagGreater(SubSeq(a, 1, Len(a) - 1), SubSeq(b, 1, Len(b) - 1))
\* v > w
Greater(v, w) ==
    IF v.neg # w.neg THEN w.neg
    ELSE IF v.neg THEN MagGreater(w.mag, v.mag)
    ELSE MagGreater(v.mag, w.mag)
\* v * 1000
Times1000(v) ==
    JsNumber(v.neg, IF v.mag = << >> THEN << >> ELSE <<0>> \o v.mag)
\* 8.64e15, the largest time value of a Date
MaxTime == <<0, 0, 0, 0, 640, 8>>
\* new Date(v) for a number v
NewDate(v) ==
    IF MagGreater(v.mag, MaxTime) THEN InvalidDate ELSE DateOf(v.neg, v.mag)
\* new Date(s) for a string s: the ISO strings of two instants, anything
\* else does not parse
DateParse(chars) ==
    IF chars = <<"2023-11-14T22:13:20.000Z">>
      THEN DateOf(FALSE, <<0, 0, 0, 700, 1>>)
    ELSE IF chars = <<"2020-09-13T12:26:40.000Z">>
      THEN DateOf(FALSE, <<0, 0, 0, 600, 1>>)
    ELSE InvalidDate
\* the left operand of ||
DateTruthy(v) ==
    \/ v.type = "string" /\ v.chars # << >>
    \/ v.type = "number" /\ v.mag # << >>
    \/ v.type = "Date"

resolveTimestampMillisOnly(dateValue, now) ==
    LET timestamp ==
            IF dateValue.type = "Date" THEN dateValue
            ELSE IF dateValue.type = "string" THEN DateParse(dateValue.chars)
            ELSE IF dateValue.type = "number" THEN NewDate(dateValue)
            ELSE now
    IN  IF timestamp.type = "Invalid Date" THEN now ELSE timestamp
\* typeof dateValue: string, number, anything else; then the isNaN check
resolveTimestamp(dateValue, now) ==
    LET timestamp ==
            IF dateValue.type = "Date" THEN dateValue
            ELSE IF dateValue.type = "string" THEN DateParse(dateValue.chars)
            ELSE IF dateValue.type = "number"
              THEN NewDate(IF Greater(dateValue,
                                      JsNumber(FALSE, <<0, 0, 0, 0, 1>>))
                             THEN dateValue ELSE Times1000(dateValue))
            ELSE now
    IN  IF timestamp.type = "Invalid Date" THEN now ELSE timestamp
\* the callback mapped over response.data.messages
loadedMessage(msg, now) ==
    LET dateValue == IF DateTruthy(msg.createdAt) THEN msg.createdAt
                     ELSE msg.timestamp
    IN  [msg EXCEPT !.timestamp = resolveTimestamp(dateValue, now)]
\* the callback mapped over the messages parsed from localStorage
savedMessage(msg, now) ==
    [msg EXCEPT !.timestamp = resolveTimestamp(msg.timestamp, now)]

RawMessages ==
    {[timestamp |-> t, createdAt |-> c] :
        c \in {JsUndefined, JsNumber(FALSE, <<0, 0, 600, 1>>)},
        t \in
        {JsUndefined,
         JsNumber(FALSE, << >>),
         JsNumber(FALSE, <<0, 0, 700, 1>>),
         JsNumber(FALSE, <<0, 0, 0, 700, 1>>),
         JsNumber(FALSE, <<0, 0, 0, 0, 1>>),
         JsNumber(FALSE, <<1, 0, 0, 0, 1>>),
         JsNumber(FALSE, <<0, 0, 0, 0, 640, 8>>),
         JsNumber(FALSE, <<1, 0, 0, 0, 640, 8>>),
         JsNumber(FALSE, <<0, 0, 0, 0, 0, 700, 1>>),
         JsNumber(TRUE, <<0, 0, 700, 1>>),
         JsNumber(TRUE, <<0, 0, 0, 0, 10>>),
         JsString(<<"2023-11-14T22:13:20.000Z">>),
         JsString(<<"2020-09-13T12:26:40.000Z">>),
         JsString(<<"yesterday">>)}}
MaxHistory == 2
Histories ==
    UNION {[1..n -> RawMessages] : n \in 0..MaxHistory}
\* new Date() at the time of the load
Clock ==
    {DateOf(FALSE, <<0, 0, 0, 800, 1>>), DateOf(FALSE, <<1, 0, 0, 800, 1>>)}
\* useState<ChatMessage[]>([]) and what the load on mount was given
NoChat ==
    [phase |-> "idle", now |-> DateOf(FALSE, << >>), messages |-> << >>,
     history |-> << >>]

VARIABLES
    accessToken,      \* client.ts: let accessToken
    sessionStorage,   \* sessionStorage['accessToken']
    user,             \* useState<User | null>
    isLoading,        \* useState(true)
    isCheckingAuth,   \* useRef(false)
    isLoggingIn,      \* useRef(false)
    isSigningUp,      \* useRef(false)
    isAuthenticated,  \* derived on every render
    mounted,          \* "init" | "mounted" | "unmounted"
    req,              \* per operation: the axios request in flight
    call,             \* login/signup: where the invocation stands
    checkOwner,       \* which invocation awaits the checkAuth in flight
    inflight,         \* invocations of a guarded operation past their guard
    ret,              \* the value the step just resolved a caller's promise with
    wire,             \* the server response the step just received
    sync,             \* POST /api/anilist/sync: the request being handled
    chat              \* ChatProvider: messages, and the load that set them

vars ==
    <<accessToken, sessionStorage, user, isLoading, isCheckingAuth, isLoggingIn,
      isSigningUp, isAuthenticated, mounted, req, call, checkOwner, inflight,
      ret, wire, sync, chat>>

\* The state as one record, so that a handler is a function of the state.
Cur ==
    [accessToken |-> accessToken, user |-> user,
     sessionStorage |-> sessionStorage, isLoading |-> isLoading,
     isCheckingAuth |-> isCheckingAuth, isLoggingIn |-> isLoggingIn,
     isSigningUp |-> isSigningUp, isAuthenticated |-> isAuthenticated,
     mounted |-> mounted, req |-> req, call |-> call,
     checkOwner |-> checkOwner, inflight |-> inflight, ret |-> ret,
     wire |-> wire]

\* ------------------------------------------------------ client.ts: tokens
\* the token is kept in memory only
setAccessTokenMemoryOnly(s, token) == [s EXCEPT !.accessToken = token]

setAccessToken(s, token) ==
    [s EXCEPT !.accessToken = token, !.sessionStorage = token]

\* the value getAccessToken returns; it also restores the memory slot
getAccessToken(s) == Or(s.accessToken, s.sessionStorage)

\* a && b on strings guarded by an object
AndObj(has, b) == IF has THEN b ELSE ""

\* the top-level tokens object is looked at before data.tokens
ExtractTokenTopFirst(data) ==
    Or(data.tokens.accessToken,
    Or(data.data.tokens.accessToken,
    Or(data.data.accessToken,
    Or(data.accessToken,
    Or(AndObj(data.data.user.has, data.data.tokens.accessToken),
       AndObj(data.user.has, data.tokens.accessToken))))))

\* response interceptor, success handler: where a token is looked for
ExtractToken(data) ==
    Or(data.data.tokens.accessToken,
    Or(data.tokens.accessToken,
    Or(data.data.accessToken,
    Or(data.accessToken,
    Or(AndObj(data.data.user.has, data.data.tokens.accessToken),
       AndObj(data.user.has, data.tokens.accessToken))))))

responseInterceptor(s, data) ==
    LET token == ExtractToken(data)
    IN  IF Truthy(token) THEN setAccessToken(s, token) ELSE s

\* the else-if chain applied to a successful refresh response
RefreshToken(refreshData) ==
    IF Truthy(refreshData.data.tokens.accessToken)
      THEN refreshData.data.tokens.accessToken
    ELSE IF Truthy(refreshData.tokens.accessToken)
      THEN refreshData.tokens.accessToken
    ELSE IF Truthy(refreshData.data.accessToken)
      THEN refreshData.data.accessToken
    ELSE refreshData.accessToken

\* the 'Not authenticated' text is not recognised
IsNoTokenErrorThree(errorMessage) ==
    \/ Includes(errorMessage, <<"No", "refresh", "token">>)
    \/ Includes(errorMessage, <<"No", "token">>)
    \/ Includes(errorMessage, <<"Token", "not", "found">>)

IsNoTokenError(errorMessage) ==
    \/ Includes(errorMessage, <<"No", "refresh", "token">>)
    \/ Includes(errorMessage, <<"No", "token">>)
    \/ Includes(errorMessage, <<"Token", "not", "found">>)
    \/ Includes(errorMessage, <<"Not", "authenticated">>)

\* the _retry flag is not consulted
ShouldRefreshAgain(r, error) ==
    /\ error.kind = "response"
    /\ error.status = 401
    /\ ~IsNoTokenError(error.body.error)

\* response interceptor, error handler: is a refresh attempted for this error
ShouldRefresh(r, error) ==
    /\ error.kind = "response"
    /\ error.status = 401
    /\ ~r.retry
    /\ ~IsNoTokenError(error.body.error)

\* handleError itself throws: errorMessage?.includes(...) on a value that is
\* neither absent nor a string is a TypeError (401 branch only)
handleErrorThrows(error) ==
    /\ error.kind = "response"
    /\ error.status = 401
    /\ OrText(error.body.error, error.body.message) = NotAString

\* the value handleError returns when it does not throw
handleError(error) ==
    IF error.kind = "response" THEN
        LET data == error.body
            status == error.status
            errorMessage == OrText(data.error, data.message)
            final ==
                IF status = 401 THEN
                    IF IsNoTokenError(errorMessage) THEN errorMessage
                    ELSE OrText(errorMessage, AuthRequired)
                ELSE IF status = 403 THEN OrText(errorMessage, Forbidden)
                ELSE IF status = 404 THEN OrText(errorMessage, RouteNotFound)
                ELSE IF status = 500 THEN OrText(errorMessage, ServerError)
                ELSE OrText(errorMessage, HttpStatus(status))
        IN  ErrBody(final)
    ELSE IF error.kind = "request" THEN ErrBody(NoServerResponse)
    ELSE ErrBody(OrText(error.message, UnexpectedError))

\* ------------------------------------------------- client.ts: one request
\* the request interceptor does not write the Authorization header
sendNoHeader(s, op) ==
    LET token == getAccessToken(s)
        r == s.req[op]
    IN  [s EXCEPT !.accessToken = token,
                  !.req[op] = [r EXCEPT
                      !.st = IF r.st = "refreshing" THEN "replayed" ELSE "issued",
                      !.sends = r.sends + 1]]

\* request interceptor + transmission of the request of operation op
send(s, op) ==
    LET token == getAccessToken(s)
        r == s.req[op]
    IN  [s EXCEPT !.accessToken = token,
                  !.req[op] = [r EXCEPT
                      !.st = IF r.st = "refreshing" THEN "replayed" ELSE "issued",
                      !.sends = r.sends + 1,
                      !.authorization =
                          IF Truthy(token) THEN token ELSE r.authorization]]

\* ------------------------------------------------------------ AuthContext
\* the loading flag is not consulted
IsAuthenticatedUserOnly(loading, u) == u.has

\* const isAuthenticated = !isLoading && !!user
IsAuthenticated(loading, u) == ~loading /\ u.has

\* a render after the state updates of a step
Render(s) == [s EXCEPT !.isAuthenticated = IsAuthenticated(s.isLoading, s.user)]

Guard(s, op) ==
    CASE op = "checkAuth" -> s.isCheckingAuth
      [] op = "login" -> s.isLoggingIn
      [] op = "signup" -> s.isSigningUp
      [] OTHER -> FALSE

\* the guard is never raised
SetGuardNever(s, op, v) == s

SetGuard(s, op, v) ==
    CASE op = "checkAuth" -> [s EXCEPT !.isCheckingAuth = v]
      [] op = "login" -> [s EXCEPT !.isLoggingIn = v]
      [] op = "signup" -> [s EXCEPT !.isSigningUp = v]
      [] OTHER -> s

\* _id: user._id || user.id, and the other fields copied
Normalize(u) ==
    [has |-> TRUE, _id |-> Or(u._id, u.id), id |-> "", email |-> u.email,
     username |-> u.username]

Resolve(s, op, how, auth, body) ==
    [s EXCEPT !.ret = [body |-> body, op |-> op, how |-> how, auth |-> auth]]

\* try { isX.current = true; setIsLoading(true); await apiClient...(url)
begin(s, op) ==
    LET s1 == SetGuard(s, op, TRUE)
        s2 == [s1 EXCEPT !.isLoading = TRUE,
                         !.inflight[op] = @ + 1,
                         !.req[op] = IdleReq]
    IN  send(s2, op)

\* the guard is not lowered in the cleanup step
finallyKeepsGuard(s, op) ==
    [s EXCEPT !.isLoading = FALSE, !.inflight[op] = @ - 1]

\* finally { setIsLoading(false); isX.current = false }
finally(s, op) ==
    LET s1 == [s EXCEPT !.isLoading = FALSE, !.inflight[op] = @ - 1]
    IN  SetGuard(s1, op, FALSE)

\* the result is downgraded when the confirmatory check left no user
returnAuthConfirmed(s, k) ==
    LET auth == IF s.user.has THEN s.call[k].authResponse
                ELSE [NoAuthResponse EXCEPT !.error = <<"Login failed">>]
        s1 == Resolve(s, k, "return", auth, EmptyBody)
        s2 == [s1 EXCEPT !.call[k] = IdleCall]
    IN  finally(s2, k)

\* login/signup: return authResponse after the confirmatory checkAuth
returnAuth(s, k) ==
    LET s1 == Resolve(s, k, "return", s.call[k].authResponse, EmptyBody)
        s2 == [s1 EXCEPT !.call[k] = IdleCall]
    IN  finally(s2, k)

\* the user is taken from the response whatever its success flag
checkAuthAnyUser(s, response) ==
    LET found == response.data.user.has
        s1 == [s EXCEPT !.user = IF found THEN response.data.user ELSE NoUser]
        s2 == finally(s1, "checkAuth")
        owner == s.checkOwner
        s3 == [s2 EXCEPT !.checkOwner = "none"]
    IN  IF owner \in Forms THEN returnAuth(s3, owner)
        ELSE Resolve(s3, "checkAuth", "return", NoAuthResponse, EmptyBody)

\* the else branch does not clear the user
checkAuthKeepsUser(s, response) ==
    LET found == response.success /\ response.data.user.has
        s1 == [s EXCEPT !.user = IF found THEN response.data.user ELSE s.user]
        s2 == finally(s1, "checkAuth")
        owner == s.checkOwner
        s3 == [s2 EXCEPT !.checkOwner = "none"]
    IN  IF owner \in Forms THEN returnAuth(s3, owner)
        ELSE Resolve(s3, "checkAuth", "return", NoAuthResponse, EmptyBody)

\* checkAuth after apiClient.get('/api/auth/me') resolved with response
checkAuthResponse(s, response) ==
    LET found == response.success /\ response.data.user.has
        s1 == [s EXCEPT !.user = IF found THEN response.data.user ELSE NoUser]
        s2 == finally(s1, "checkAuth")
        owner == s.checkOwner
        s3 == [s2 EXCEPT !.checkOwner = "none"]
    IN  IF owner \in Forms THEN returnAuth(s3, owner)
        ELSE Resolve(s3, "checkAuth", "return", NoAuthResponse, EmptyBody)

\* a call of checkAuth() on behalf of owner ("none": the mount effect or a consumer)
checkAuth(s, owner) ==
    IF s.isCheckingAuth THEN
        IF owner \in Forms THEN returnAuth(s, owner)
        ELSE Resolve(s, "checkAuth", "rejected", NoAuthResponse, EmptyBody)
    ELSE
        LET s1 == begin(s, "checkAuth")
            s2 == [s1 EXCEPT !.checkOwner = owner]
        IN  IF owner \in Forms THEN [s2 EXCEPT !.call[owner].phase = "confirm"]
            ELSE s2

\* the doubly nested layout is not looked at
loginParseTwoCases(data) ==
    IF ~data.has THEN [user |-> NoUser, tokens |-> NoTokens, found |-> FALSE]
    ELSE IF data.user.has THEN
        [user |-> Normalize(data.user), tokens |-> data.tokens,
         found |-> TRUE]
    ELSE IF Truthy(data.email) /\ Truthy(data.username) THEN
        [user |-> Normalize(data), tokens |-> data.tokens, found |-> TRUE]
    ELSE [user |-> NoUser, tokens |-> NoTokens, found |-> FALSE]

\* the flattened layout is accepted on either field
loginParseEitherField(data) ==
    IF ~data.has THEN [user |-> NoUser, tokens |-> NoTokens, found |-> FALSE]
    ELSE IF data.user.has THEN
        [user |-> Normalize(data.user), tokens |-> data.tokens,
         found |-> TRUE]
    ELSE IF Truthy(data.email) \/ Truthy(data.username) THEN
        [user |-> Normalize(data), tokens |-> data.tokens, found |-> TRUE]
    ELSE IF data.data.has /\ data.data.user.has THEN
        [user |-> Normalize(data.data.user),
         tokens |-> IF data.data.tokens.has THEN data.data.tokens ELSE data.tokens,
         found |-> TRUE]
    ELSE [user |-> NoUser, tokens |-> NoTokens, found |-> FALSE]

\* login: where the user and the tokens are looked for in response.data
loginParse(data) ==
    IF ~data.has THEN [user |-> NoUser, tokens |-> NoTokens, found |-> FALSE]
    ELSE IF data.user.has THEN
        [user |-> Normalize(data.user), tokens |-> data.tokens,
         found |-> TRUE]
    ELSE IF Truthy(data.email) /\ Truthy(data.username) THEN
        [user |-> Normalize(data), tokens |-> data.tokens, found |-> TRUE]
    ELSE IF data.data.has /\ data.data.user.has THEN
        [user |-> Normalize(data.data.user),
         tokens |-> IF data.data.tokens.has THEN data.data.tokens ELSE data.tokens,
         found |-> TRUE]
    ELSE [user |-> NoUser, tokens |-> NoTokens, found |-> FALSE]

\* signup: the same search without the doubly nested case
signupParse(data) ==
    IF ~data.has THEN [user |-> NoUser, tokens |-> NoTokens, found |-> FALSE]
    ELSE IF data.user.has THEN
        [user |-> Normalize(data.user), tokens |-> data.tokens,
         found |-> TRUE]
    ELSE IF Truthy(data.email) /\ Truthy(data.username) THEN
        [user |-> Normalize(data), tokens |-> data.tokens, found |-> TRUE]
    ELSE [user |-> NoUser, tokens |-> NoTokens, found |-> FALSE]

\* the message of the Error thrown when no user is accepted
loginThrown(response) ==
    IF response.success THEN LoginNoUser
    ELSE OrText(response.error, LoginFailed)

signupThrown(response) ==
    IF response.success /\ response.data.has
      THEN OrText(response.data.error, SignupNoUser)
    ELSE OrText(response.error, SignupFailed)

\* catch (error) { setUser(null); return {success: false, error} } finally {...}
catchAuth(s, k, message) ==
    LET s1 == [s EXCEPT !.user = NoUser, !.call[k] = IdleCall]
        s2 == Resolve(s1, k, "return",
                      [NoAuthResponse EXCEPT
                          !.error = OrText(message,
                                      IF k = "login" THEN LoginFailed
                                      ELSE SignupFailed)],
                      EmptyBody)
    IN  finally(s2, k)

\* login/signup after apiClient.post resolved with response
authResponse(s, k, response) ==
    LET p == IF k = "login" THEN loginParse(response.data)
             ELSE signupParse(response.data)
        thrown == IF k = "login" THEN loginThrown(response)
                  ELSE signupThrown(response)
        s1 == IF Truthy(p.tokens.accessToken)
              THEN setAccessToken(s, p.tokens.accessToken) ELSE s
    IN  IF response.success /\ p.found THEN
            [s1 EXCEPT !.user = p.user,
                       !.call[k] =
                           [phase |-> "delay",
                            authResponse |->
                                [user |-> p.user, tokens |-> p.tokens,
                                 error |-> NoText, success |-> TRUE]]]
        ELSE catchAuth(s, k, thrown)

\* the stored token survives the logout
logoutKeepsToken(s) ==
    Resolve([s EXCEPT !.user = NoUser], "logout", "return", NoAuthResponse,
            EmptyBody)

\* logout: finally { setUser(null); setAccessToken(null) }
logoutResponse(s) ==
    Resolve(setAccessToken([s EXCEPT !.user = NoUser], ""),
            "logout", "return", NoAuthResponse, EmptyBody)

\* refreshToken: return response.success || false
refreshTokenResponse(s, response) ==
    Resolve(s, "refreshToken", "return",
            [NoAuthResponse EXCEPT !.success = response.success], EmptyBody)

\* what awaits the envelope that apiClient resolved with
continue(s, op, response) ==
    CASE op = "checkAuth" -> checkAuthResponse(s, response)
      [] op \in Forms -> authResponse(s, op, response)
      [] op = "logout" -> logoutResponse(s)
      [] op = "refreshToken" -> refreshTokenResponse(s, response)
      [] OTHER -> Resolve(s, "request", "return", NoAuthResponse, response)

\* what catches the exception that apiClient rejected with
caught(s, op, message) ==
    CASE op = "checkAuth" -> checkAuthResponse(s, EmptyBody)
      [] op \in Forms -> catchAuth(s, op, message)
      [] op = "logout" -> logoutResponse(s)
      [] op = "refreshToken" ->
            Resolve([s EXCEPT !.user = NoUser], "refreshToken", "return",
                    NoAuthResponse, EmptyBody)
      [] OTHER -> Resolve(s, "request", "throw", NoAuthResponse, EmptyBody)

\* apiClient.get/post/...: catch (error) { return handleError(error) }
reject(s, op, error) ==
    IF handleErrorThrows(error)
    THEN caught([s EXCEPT !.req[op] = IdleReq], op, IncludesNotAFunction)
    ELSE continue([s EXCEPT !.req[op] = IdleReq], op, handleError(error))

\* the replay's response is dropped and the first error reaches the caller
resolveDropsReplay(s, op, data) ==
    IF s.req[op].st = "replayed" THEN reject(s, op, s.req[op].error)
    ELSE continue([s EXCEPT !.req[op] = IdleReq], op, data)

\* apiClient.get/post/...: const response = await axiosInstance...; return response.data
resolve(s, op, data) ==
    continue([s EXCEPT !.req[op] = IdleReq], op, data)

\* ------------------------------------------------------------------ steps
\* the state a step starts from: the observations of the last step are gone
Begin == [Cur EXCEPT !.ret = NoRet, !.wire = NoWire]

Received(s, op, kind, status, body) ==
    [s EXCEPT !.wire =
        [status |-> status, body |-> body, kind |-> kind,
         sends |-> s.req[op].sends, refreshes |-> s.req[op].refreshes,
         op |-> op,
         on |-> IF s.req[op].st = "replayed" THEN "replay" ELSE "first"]]

\* the response of the refresh call of operation op, as received
ReceivedRefresh(s, op, kind, status, body) ==
    [s EXCEPT !.wire =
        [status |-> status, body |-> body, kind |-> kind,
         sends |-> s.req[op].sends, refreshes |-> s.req[op].refreshes,
         op |-> op, on |-> "refresh"]]

Commit(n) ==
    LET s == Render(n)
    IN  /\ accessToken' = s.accessToken
        /\ sessionStorage' = s.sessionStorage
        /\ user' = s.user
        /\ isLoading' = s.isLoading
        /\ isCheckingAuth' = s.isCheckingAuth
        /\ isLoggingIn' = s.isLoggingIn
        /\ isSigningUp' = s.isSigningUp
        /\ isAuthenticated' = s.isAuthenticated
        /\ mounted' = s.mounted
        /\ req' = s.req
        /\ call' = s.call
        /\ checkOwner' = s.checkOwner
        /\ inflight' = s.inflight
        /\ ret' = s.ret
        /\ wire' = s.wire
        /\ UNCHANGED <<sync, chat>>

Init ==
    /\ accessToken = ""
    /\ sessionStorage \in {"", "t1"}
    /\ user = NoUser
    /\ isLoading = TRUE
    /\ isCheckingAuth = FALSE
    /\ isLoggingIn = FALSE
    /\ isSigningUp = FALSE
    /\ isAuthenticated = FALSE
    /\ mounted = "init"
    /\ req = [op \in Ops |-> IdleReq]
    /\ call = [k \in Forms |-> IdleCall]
    /\ checkOwner = "none"
    /\ inflight = [op \in GuardedOps |-> 0]
    /\ ret = NoRet
    /\ wire = NoWire
    /\ sync = IdleSync
    /\ chat = NoChat

\* the operations with an invocation in flight
Active == {op \in Ops : req[op].st # "idle"} \cup {k \in Forms : call[k].phase # "idle"}
CanStart(cap) == mounted = "mounted" /\ Cardinality(Active) < cap

\* useEffect on mount: restore the token from sessionStorage, then checkAuth()
Mount ==
    /\ mounted = "init"
    /\ LET s0 == [Begin EXCEPT !.mounted = "mounted"]
           s1 == IF Truthy(s0.sessionStorage)
                 THEN setAccessToken(s0, s0.sessionStorage) ELSE s0
       IN  Commit(checkAuth(s1, "none"))

\* a consumer of the context calls checkAuth()
CheckAuth(cap) ==
    /\ CanStart(cap)
    /\ ~isCheckingAuth => inflight["checkAuth"] < MaxInFlight
    /\ Commit(checkAuth(Begin, "none"))

\* login(email, password) / signup(email, username, password) is called
Submit(k, cap) ==
    /\ mounted = "mounted"
    /\ ~Guard(Cur, k) => CanStart(cap) /\ inflight[k] < MaxInFlight
    /\ IF Guard(Cur, k)
       THEN Commit(Resolve(Begin, k, "rejected",
                [NoAuthResponse EXCEPT
                    !.error = IF k = "login" THEN LoginInProgress
                              ELSE SignupInProgress],
                EmptyBody))
       ELSE Commit([begin(Begin, k) EXCEPT !.call[k].phase = "wait"])

Login(cap) == Submit("login", cap)
Signup(cap) == Submit("signup", cap)

\* the 200 ms settling delay of login/signup is over: await checkAuth()
Settled(k) ==
    /\ call[k].phase = "delay"
    /\ ~isCheckingAuth => inflight["checkAuth"] < MaxInFlight
    /\ Commit(checkAuth(Begin, k))

\* logout(), refreshToken() or a component's apiClient call starts
Start(op, cap) ==
    /\ CanStart(cap)
    /\ req[op].st = "idle"
    /\ Commit(send([Begin EXCEPT !.req[op] = IdleReq], op))

Logout(cap) == Start("logout", cap)
RefreshSession(cap) == Start("refreshToken", cap)
Request(cap) == Start("request", cap)

\* a 2xx response arrives: success interceptor, then the caller continues
RespondOk(op, body) ==
    /\ req[op].st \in {"issued", "replayed"}
    /\ LET s0 == Received(Begin, op, "ok", 200, body)
           s1 == responseInterceptor(s0, body)
       IN  Commit(resolve(s1, op, body))

\* the request fails: error interceptor, refresh or rejection
Fail(op, error) ==
    /\ req[op].st \in {"issued", "replayed"}
    /\ LET s0 == Received(Begin, op, error.kind, error.status, error.body)
           r == s0.req[op]
       IN  IF ShouldRefresh(r, error)
           THEN Commit([s0 EXCEPT !.req[op] =
                            [r EXCEPT !.st = "refreshing", !.retry = TRUE,
                                      !.refreshes = r.refreshes + 1,
                                      !.error = error]])
           ELSE Commit(reject(s0, op, error))

RespondError(op, resp) ==
    Fail(op, [message |-> NoText, status |-> resp.status, body |-> resp.body,
              kind |-> "response"])
RespondNone(op) ==
    Fail(op, [message |-> <<"Network", "Error">>, status |-> 0,
              body |-> EmptyBody, kind |-> "request"])
SetupError(op, message) ==
    Fail(op, [message |-> message, status |-> 0, body |-> EmptyBody,
              kind |-> "setup"])

\* the refresh call (plain axios) resolved with a 2xx body
RefreshOk(op, body) ==
    /\ req[op].st = "refreshing"
    /\ body.success => req[op].sends < MaxSends
    /\ LET s0 == ReceivedRefresh(Begin, op, "ok", 200, body)
           token == RefreshToken(body)
           s1 == IF Truthy(token) THEN setAccessToken(s0, token) ELSE s0
       IN  IF body.success THEN Commit(send(s1, op))
           ELSE Commit(reject(s0, op, s0.req[op].error))

\* the refresh call threw (error status or no response)
RefreshFail(op) ==
    /\ req[op].st = "refreshing"
    /\ LET s0 == ReceivedRefresh(Begin, op, "response", 401, EmptyBody)
       IN  Commit(reject(s0, op, s0.req[op].error))

RefreshBodies ==
    TokenBodies \cup TwoTokenBodies \cup {OkBody, EmptyBody, FalseTokenBody}
SetupMessages == {NoText, <<"Request", "aborted">>}

\* The steps of the program, for a server that answers with the bodies B, the
\* error responses E and the refresh bodies R, request set-up failing with the
\* messages M, and at most cap operations in flight at once.
Steps(B, E, R, M, cap) ==
    \/ Mount
    \/ CheckAuth(cap)
    \/ Login(cap)
    \/ Signup(cap)
    \/ \E k \in Forms : Settled(k)
    \/ Logout(cap)
    \/ RefreshSession(cap)
    \/ Request(cap)
    \/ \E op \in Ops, body \in B : RespondOk(op, body)
    \/ \E op \in Ops, resp \in E : RespondError(op, resp)
    \/ \E op \in Ops : RespondNone(op)
    \/ \E op \in Ops, m \in M : SetupError(op, m)
    \/ \E op \in Ops, body \in R : RefreshOk(op, body)
    \/ \E op \in Ops : RefreshFail(op)

\* Overlapping operations, against a server with one response of each kind.
SomeBodies ==
    {NestedBody(u, TokenPair("t1")) : u \in ServerUsers} \cup {OkBody, EmptyBody}
SomeErrors ==
    {[status |-> 401, body |-> ErrBody(TokenExpired)],
     [status |-> 401, body |-> ErrBody(<<"No", "token">>)],
     [status |-> 500, body |-> EmptyBody]}
SomeRefreshBodies == {[OkBody EXCEPT !.tokens = TokenPair("t1")], EmptyBody}
Next == Steps(SomeBodies, SomeErrors, SomeRefreshBodies, {NoText}, MaxConcurrent)
Spec == Init /\ [][Next]_vars

\* Overlapping operations, the refresh endpoint also answering success
\* without a token in the body (the token travels in a cookie).
NextReplay ==
    Steps(SomeBodies, SomeErrors, SomeRefreshBodies \cup {OkBody}, {NoText},
          MaxConcurrent)
SpecReplay == Init /\ [][NextReplay]_vars

\* One operation at a time, against a server with every response shape.
NextData == Steps(Bodies, ErrorResponses, RefreshBodies, SetupMessages, 1)
SpecData == Init /\ [][NextData]_vars

\* The network answers: the request of operation op, or its refresh call,
\* comes back with a response or an error.
LiveErrors == SomeErrors \cup {[status |-> 401, body |-> MsgBody(NotAString)]}
LiveRefreshBodies == SomeRefreshBodies \cup {OkBody}
Answered(op) ==
    \/ \E body \in SomeBodies : RespondOk(op, body)
    \/ \E resp \in LiveErrors : RespondError(op, resp)
    \/ RespondNone(op)
    \/ SetupError(op, NoText)
    \/ \E body \in LiveRefreshBodies : RefreshOk(op, body)
    \/ RefreshFail(op)

\* One operation at a time, one response of each kind, under the assumption
\* that every network call eventually returns a response or an error.
NextLive == Steps(SomeBodies, LiveErrors, LiveRefreshBodies, {NoText}, 1)
SpecLive ==
    Init /\ [][NextLive]_vars /\ \A op \in Ops : WF_vars(Answered(op))

\* The provider is unmounted (navigation away): the cleanup of the mount
\* effect sets its flag to false; nothing else is touched.
Unmount ==
    /\ mounted = "mounted"
    /\ Commit([Begin EXCEPT !.mounted = "unmounted"])

\* The page is reloaded: the module state of the client and the provider
\* start afresh, requests in flight are dropped, sessionStorage is kept.
Reload ==
    /\ mounted # "init"
    /\ accessToken' = ""
    /\ sessionStorage' = sessionStorage
    /\ user' = NoUser
    /\ isLoading' = TRUE
    /\ isCheckingAuth' = FALSE
    /\ isLoggingIn' = FALSE
    /\ isSigningUp' = FALSE
    /\ isAuthenticated' = FALSE
    /\ mounted' = "init"
    /\ req' = [op \in Ops |-> IdleReq]
    /\ call' = [k \in Forms |-> IdleCall]
    /\ checkOwner' = "none"
    /\ inflight' = [op \in GuardedOps |-> 0]
    /\ ret' = NoRet
    /\ wire' = NoWire
    /\ UNCHANGED <<sync, chat>>

\* One operation at a time in a tab where the provider may be unmounted and
\* the page reloaded at any moment; the server also hands out a second token.
PageBodies == SomeBodies \cup {[OkBody EXCEPT !.tokens = TokenPair("t2")]}
NextPage ==
    \/ Steps(PageBodies, SomeErrors, SomeRefreshBodies, {NoText}, 1)
    \/ Unmount
    \/ Reload
SpecPage == Init /\ [][NextPage]_vars

\* ------------------------------------------ POST /api/anilist/sync (route)
\* the state of the client and of the provider, which the route never touches
clientVars ==
    <<accessToken, sessionStorage, user, isLoading, isCheckingAuth, isLoggingIn,
      isSigningUp, isAuthenticated, mounted, req, call, checkOwner, inflight,
      ret, wire>>

\* NextResponse.json({success: false, error}, {status})
SyncRespond(s, status, error) ==
    [s EXCEPT !.error = error, !.status = status, !.phase = "responded"]

\* a request arrives: validation, then the first call of the AniList client
POST(body) ==
    /\ sync.phase \in {"idle", "responded"}
    /\ LET validated == syncRequestSchema(body)
           s0 == [IdleSync EXCEPT !.body = body]
       IN  sync' =
             IF ~validated.success
               THEN SyncRespond(s0, 400, validated.issues[1])
             ELSE IF JsTruthy(validated.data.username)
               THEN [s0 EXCEPT !.phase = "lookup", !.calls = 1]
             ELSE IF JsTruthy(validated.data.userId)
               THEN [s0 EXCEPT !.phase = "fetch", !.calls = 1]
             ELSE SyncRespond(s0, 400, ApiKeyNeeded)
    /\ UNCHANGED <<clientVars, chat>>

\* getUserIdByUsername resolved: fetchUserAnimeList({username}) is called
LookupOk ==
    /\ sync.phase = "lookup"
    /\ sync' = [sync EXCEPT !.phase = "fetch", !.calls = @ + 1]
    /\ UNCHANGED <<clientVars, chat>>

\* fetchUserAnimeList resolved: {success: true, data: {synced, ...}}
AniListOk ==
    /\ sync.phase = "fetch"
    /\ sync' = SyncRespond(sync, 200, NoText)
    /\ UNCHANGED <<clientVars, chat>>

\* the AniList client threw: 404, 403, or the outer catch's 500
AniListThrows(message) ==
    /\ sync.phase \in {"lookup", "fetch"}
    /\ sync' =
          IF Includes(message, <<"not", "found">>)
            THEN SyncRespond(sync, 404, message)
          ELSE IF Includes(message, <<"private">>)
            THEN SyncRespond(sync, 403, message)
          ELSE SyncRespond(sync, 500, OrText(message, SyncFailed))
    /\ UNCHANGED <<clientVars, chat>>

NextSync ==
    \/ \E body \in SyncBodies : POST(body)
    \/ LookupOk
    \/ AniListOk
    \/ \E message \in {<<"User", "ann", "not", "found">>,
                        <<"User", "list", "is", "private">>,
                        <<"Network", "Error">>, NoText} :
          AniListThrows(message)
SpecSync == Init /\ [][NextSync]_vars

\* ------------------------------------------- ChatProvider (load on mount)
\* the provider mounts, GET /api/chat/history is answered and apiClient.get
\* returns {success, data: {messages}}
loadChatHistory(success, hasMessages, messages, now) ==
    /\ chat.phase = "idle"
    /\ chat' =
          IF success /\ hasMessages
            THEN [phase |-> "loaded",
                  now |-> now,
                  messages |-> [i \in DOMAIN messages |->
                                   loadedMessage(messages[i], now)],
                  history |-> messages]
          ELSE [NoChat EXCEPT !.phase = "failed"]
    /\ UNCHANGED <<clientVars, sync>>

\* the provider mounts and apiClient.get throws: the catch block reads
\* localStorage['chatMessages']
loadChatHistoryCaught(hasSaved, savedMessages, now) ==
    /\ chat.phase = "idle"
    /\ chat' =
          IF hasSaved
            THEN [phase |-> "restored",
                  now |-> now,
                  messages |-> [i \in DOMAIN savedMessages |->
                                   savedMessage(savedMessages[i], now)],
                  history |-> savedMessages]
          ELSE [NoChat EXCEPT !.phase = "failed"]
    /\ UNCHANGED <<clientVars, sync>>

\* the page is loaded again: the provider starts from its initial state and
\* its effect has not run yet
ChatReload ==
    /\ chat.phase # "idle"
    /\ chat' = NoChat
    /\ UNCHANGED <<clientVars, sync>>

NextChat ==
    \/ /\ chat.phase = "idle"
       /\ \/ \E success \in BOOLEAN, messages \in Histories, now \in Clock :
                loadChatHistory(success, TRUE, messages, now)
          \/ \E success \in BOOLEAN, now \in Clock :
                loadChatHistory(success, FALSE, << >>, now)
          \/ \E savedMessages \in Histories, now \in Clock :
                loadChatHistoryCaught(TRUE, savedMessages, now)
          \/ \E now \in Clock : loadChatHistoryCaught(FALSE, << >>, now)
    \/ ChatReload
SpecChat == Init /\ [][NextChat]_vars

\* ================================================================= claims
\* C1: for one original request at most one refresh request is issued and
\* the request is transmitted at most twice; a 401 received on the replay
\* ends the request without a second refresh.
C1_OneRefreshOneReplay ==
    /\ \A op \in Ops : req[op].refreshes <= 1 /\ req[op].sends <= 2
    /\ wire.sends <= 2 /\ wire.refreshes <= 1
    /\ (wire.on = "replay" /\ wire.kind = "response" /\ wire.status = 401)
          => req[wire.op].st = "idle" /\ ret.op # "none"
C1_Witness ==
    /\ wire.on = "replay" /\ wire.kind = "response" /\ wire.status = 401
    /\ wire.op = "request" /\ wire.sends = 2 /\ wire.refreshes = 1
    /\ wire.body.error = TokenExpired

\* C2: a recoverable 401, then a successful refresh, then a 2xx replay: the
\* request was replayed exactly once and the caller of apiClient receives
\* the body of the replay's response.
C2_ReplayBodyReturned ==
    (wire.op = "request" /\ wire.on = "replay" /\ wire.kind = "ok")
        => /\ wire.sends = 2 /\ wire.refreshes = 1
           /\ ret.op = "request" /\ ret.how = "return"
           /\ ret.body = wire.body
           /\ req["request"].st = "idle"
C2_Witness ==
    /\ wire.op = "request" /\ wire.on = "replay" /\ wire.kind = "ok"
    /\ wire.body.success /\ ret.body.success /\ ret.body.data.user.has

\* C3: a refresh is attempted for a failed response exactly when its status is
\* 401, the request is not a replay and its error text contains none of the
\* four no-token texts; every other failure reaches the caller at once,
\* with no refresh and no replay.
NoTokenMarkers ==
    {<<"No", "refresh", "token">>, <<"No", "token">>,
     <<"Token", "not", "found">>, <<"Not", "authenticated">>}
C3_Recoverable ==
    /\ wire.kind = "response" /\ wire.status = 401 /\ wire.on = "first"
    /\ \A m \in NoTokenMarkers : ~Includes(wire.body.error, m)
C3_RefreshOnlyWhenRecoverable ==
    /\ \A op \in Ops : req[op].st \in {"refreshing", "replayed"} => req[op].retry
    /\ (wire.on \in {"first", "replay"} /\ wire.kind # "ok")
          => IF C3_Recoverable
             THEN req[wire.op].st = "refreshing" /\ ret.op = "none"
             ELSE req[wire.op].st = "idle" /\ ret.op # "none"
C3_Witness ==
    /\ wire.kind = "response" /\ wire.status = 401 /\ wire.on = "first"
    /\ wire.body.error = <<"Error:", "No", "token", "provided">>
    /\ req[wire.op].st = "idle" /\ ret.op = "request"
    /\ ret.body.error = wire.body.error

\* C4: a login (signup) call made while an earlier one has not resolved, in
\* whatever phase, resolves at once with {success: false, error: 'Login
\* already in progress'} ('Signup already in progress'), sends nothing and
\* leaves the user, isLoading, the token store and the guards as they were.
C4_Rejection(k, message) ==
    (call[k].phase # "idle" /\ Submit(k, MaxConcurrent))
        => /\ ret' = [body |-> EmptyBody, op |-> k, how |-> "rejected",
                      auth |-> [NoAuthResponse EXCEPT !.error = message]]
           /\ UNCHANGED <<accessToken, sessionStorage, user, isLoading,
                          isCheckingAuth, isLoggingIn, isSigningUp, req, call,
                          checkOwner, inflight>>
C4_SecondCallRejected ==
    [][/\ C4_Rejection("login", <<"Login already in progress">>)
       /\ C4_Rejection("signup", <<"Signup already in progress">>)]_vars
C4_Witness ==
    /\ ret.op = "login" /\ ret.how = "rejected"
    /\ call["login"].phase = "confirm" /\ isLoggingIn
    /\ req["checkAuth"].st = "issued"

\* C5: each guard is true exactly while one invocation of its operation is in
\* flight, so at most one checkAuth, one login and one signup are in flight; a
\* rejected call leaves the guard set and a finished one leaves it cleared.
C5_InFlight(op) ==
    IF op = "checkAuth" THEN req["checkAuth"].st # "idle"
    ELSE call[op].phase # "idle"
C5_GuardOf(op) ==
    CASE op = "checkAuth" -> isCheckingAuth
      [] op = "login" -> isLoggingIn
      [] OTHER -> isSigningUp
C5_GuardsMatchInFlight ==
    /\ \A op \in GuardedOps :
          /\ inflight[op] <= 1
          /\ C5_GuardOf(op) <=> inflight[op] = 1
          /\ C5_GuardOf(op) <=> C5_InFlight(op)
    /\ (ret.op \in GuardedOps /\ ret.how = "rejected") => C5_GuardOf(ret.op)
    /\ (ret.op \in GuardedOps /\ ret.how = "return") => ~C5_GuardOf(ret.op)
    /\ checkOwner \in Forms => call[checkOwner].phase = "confirm"
C5_Witness ==
    /\ ret.op = "login" /\ ret.how = "return" /\ ret.auth.success
    /\ isCheckingAuth /\ ~isLoggingIn /\ wire.op = "none"

\* C6: when logout() completes the current user is null and the access token
\* is gone from memory and from sessionStorage, whatever the logout request
\* came to; logout resolves.
C6_LogoutClears ==
    ret.op = "logout"
        => /\ ret.how = "return"
           /\ user = NoUser /\ ~isAuthenticated
           /\ accessToken = "" /\ sessionStorage = ""
C6_Witness ==
    /\ ret.op = "logout" /\ wire.op = "logout" /\ wire.kind = "request"
    /\ call["login"].phase = "delay"

\* C7: a successful login response carrying the same user fields and token
\* pair in any of the three layouts sets the same canonical user, leaves the
\* same access token in the token store and makes login return the same
\* {success: true, user, tokens}.
C7_Canonical(u) ==
    [has |-> TRUE, _id |-> IF u._id # "" THEN u._id ELSE u.id, id |-> "",
     email |-> u.email, username |-> u.username]
C7_Result(u, t) ==
    [user |-> C7_Canonical(u), tokens |-> t, error |-> NoText,
     success |-> TRUE]
C7_Parsed(l, u, t) ==
    (wire'.op = "login" /\ wire'.kind = "ok" /\ wire'.on # "refresh"
       /\ wire'.body = LayoutBody(l, u, t))
        => /\ user' = C7_Canonical(u)
           /\ call'["login"] =
                 [phase |-> "delay", authResponse |-> C7_Result(u, t)]
           /\ accessToken' = IF t.has THEN t.accessToken ELSE accessToken
           /\ sessionStorage' = IF t.has THEN t.accessToken ELSE sessionStorage
C7_Returned ==
    (call["login"].phase \in {"delay", "confirm"} /\ call'["login"].phase = "idle")
        => ret' = [body |-> EmptyBody, op |-> "login", how |-> "return",
                   auth |-> call["login"].authResponse]
C7_LayoutsAgree ==
    [][/\ \A l \in Layouts, u \in ServerUsers, t \in TokenPairs : C7_Parsed(l, u, t)
       /\ C7_Returned]_vars
C7_Witness ==
    /\ wire.op = "login" /\ wire.kind = "ok"
    /\ \E u \in ServerUsers :
          /\ u._id = ""
          /\ wire.body = DeepBody(u, TokenPair("t2"))
          /\ user = C7_Canonical(u) /\ user._id = u.id
    /\ accessToken = "t2" /\ call["login"].phase = "delay"

\* C8: a login or signup response that reports success but holds no user
\* under any recognised layout makes the operation return {success: false}
\* with a non-empty error; the user is null and no checkAuth request is sent.
C8_NoUserLocated(body) ==
    /\ ~body.data.user.has
    /\ ~(body.data.email # "" /\ body.data.username # "")
    /\ ~body.data.data.user.has
C8_NoUserFails ==
    (wire.op \in Forms /\ wire.kind = "ok" /\ wire.on # "refresh"
       /\ wire.body.success /\ C8_NoUserLocated(wire.body))
        => /\ ret.op = wire.op /\ ret.how = "return"
           /\ ~ret.auth.success /\ ret.auth.error # NoText
           /\ ~ret.auth.user.has
           /\ user = NoUser
           /\ req["checkAuth"].st = "idle" /\ ~isCheckingAuth
           /\ call[wire.op].phase = "idle"
C8_Witness ==
    /\ wire.op = "login" /\ wire.kind = "ok" /\ wire.body.success
    /\ wire.body.data.email = "a@x" /\ wire.body.data.username = ""
    /\ ret.op = "login" /\ ~ret.auth.success /\ ret.auth.error = LoginNoUser

\* C9: once checkAuth, login or signup has processed a response whose
\* success is false (a 2xx body saying so, or the envelope of a failed
\* request), the current user is null.
C9_Envelope ==
    IF wire.kind = "ok" /\ wire.on # "refresh" THEN wire.body.success
    ELSE FALSE
C9_Processed ==
    /\ wire.op \in {"checkAuth", "login", "signup"}
    /\ req[wire.op].st = "idle"
C9_FailureNeverSetsUser ==
    (C9_Processed /\ ~C9_Envelope) => user = NoUser /\ ~isAuthenticated
C9_Witness ==
    /\ wire.op = "checkAuth" /\ wire.kind = "ok" /\ ~wire.body.success
    /\ wire.body.data.user.has /\ user = NoUser /\ ret.op = "checkAuth"

\* C10: isAuthenticated is (not isLoading and a user is present) in every
\* state, so it is false whenever isLoading is true, user or no user.
C10_AuthenticatedIffLoadedUser ==
    /\ isAuthenticated <=> (isLoading = FALSE /\ user # NoUser)
    /\ isLoading => ~isAuthenticated
C10_Witness ==
    isLoading /\ user # NoUser /\ ~isAuthenticated /\ call["login"].phase = "delay"

\* C11: isAuthenticated is never true while a checkAuth request is in flight,
\* nor before the check started by the mount effect has completed (until then
\* the provider is unmounted or that check's request is still in flight).
C11_CheckInFlight == mounted = "init" \/ req["checkAuth"].st # "idle"
C11_NeverAuthenticatedDuringCheck == C11_CheckInFlight => ~isAuthenticated

\* C12 as stated: the confirmatory GET /api/auth/me of a login or signup whose
\* response carried an access token is sent with that token.
C12_Token(k) == call[k].authResponse.tokens.accessToken
C12_ConfirmSent(k) ==
    /\ call[k].phase = "confirm" /\ checkOwner = k
    /\ call[k].authResponse.tokens.has
    /\ req["checkAuth"].st = "issued" /\ req["checkAuth"].sends = 1
C12_ConfirmCarriesNewToken ==
    \A k \in Forms :
        C12_ConfirmSent(k) => req["checkAuth"].authorization = C12_Token(k)

\* C12 amended: the step that processes the login/signup response leaves its
\* token in both slots of the store, before the 200 ms delay and so before the
\* confirmatory GET; that GET is sent with the token the store holds when the
\* delay ends, which is the response's token if the store still holds it.
C12_Stored(k) ==
    (wire'.op = k /\ wire'.on # "refresh" /\ call'[k].phase = "delay"
       /\ call'[k].authResponse.tokens.has)
        => /\ accessToken' = call'[k].authResponse.tokens.accessToken
           /\ sessionStorage' = call'[k].authResponse.tokens.accessToken
C12_Sent(k) ==
    (call[k].phase = "delay" /\ call'[k].phase = "confirm")
        => /\ req'["checkAuth"].authorization =
                 (IF accessToken # "" THEN accessToken ELSE sessionStorage)
           /\ (call[k].authResponse.tokens.has /\ accessToken = C12_Token(k))
                 => req'["checkAuth"].authorization = C12_Token(k)
C12_TokenStoredBeforeConfirm ==
    [][\A k \in Forms : C12_Stored(k) /\ C12_Sent(k)]_vars
C12_Witness ==
    /\ C12_ConfirmSent("login") /\ ret.op = "none" /\ wire.op = "none"
    /\ C12_Token("login") = "t1" /\ req["checkAuth"].authorization = "t1"
    /\ accessToken = "t1"

\* C13: when login locates a user in its response, it returns {success: true,
\* user, tokens} built from that response, whether the confirmatory checkAuth
\* confirms the user, clears it, or is skipped because a check is in flight.
C13_User(body) ==
    LET u == IF body.data.user.has THEN body.data.user
             ELSE IF body.data.email # "" /\ body.data.username # ""
               THEN body.data
             ELSE body.data.data.user
    IN  [has |-> TRUE, _id |-> IF u._id # "" THEN u._id ELSE u.id, id |-> "",
         email |-> u.email, username |-> u.username]
C13_Tokens(body) ==
    IF body.data.user.has
         \/ (body.data.email # "" /\ body.data.username # "")
         \/ ~body.data.data.tokens.has
    THEN body.data.tokens
    ELSE body.data.data.tokens
C13_Built ==
    (wire'.op = "login" /\ wire'.kind = "ok" /\ wire'.on # "refresh"
       /\ wire'.body.success /\ ~C8_NoUserLocated(wire'.body))
        => /\ call'["login"].phase = "delay" /\ ret'.op = "none"
           /\ call'["login"].authResponse =
                 [user |-> C13_User(wire'.body),
                  tokens |-> C13_Tokens(wire'.body), error |-> NoText,
                  success |-> TRUE]
C13_Kept ==
    (call["login"].phase \in {"delay", "confirm"} /\ call'["login"].phase # "idle")
        => call'["login"].authResponse = call["login"].authResponse
C13_Returns ==
    (call["login"].phase \in {"delay", "confirm"} /\ call'["login"].phase = "idle")
        => /\ ret'.op = "login" /\ ret'.how = "return"
           /\ ret'.auth = call["login"].authResponse
           /\ ret'.auth.success /\ ret'.auth.user.has
C13_ReturnsParsedResult == [][C13_Built /\ C13_Kept /\ C13_Returns]_vars
\* the confirmatory check cleared the user and login still returned success
C13_Witness ==
    /\ ret.op = "login" /\ ret.how = "return" /\ ret.auth.success
    /\ ret.auth.user.has /\ ret.auth.tokens.has
    /\ wire.op = "checkAuth" /\ wire.kind = "response" /\ user = NoUser

\* C14: when a checkAuth call that passed its guard completes, the user is
\* the user of the response if the response is a 2xx body with success true
\* and data.user, and null for every other outcome; isLoading is false, the
\* guard is lowered and the call (or the login/signup awaiting it) resolves.
C14_Completed ==
    wire.op = "checkAuth" /\ req["checkAuth"].st = "idle"
C14_Recognised ==
    /\ wire.kind = "ok" /\ wire.on # "refresh"
    /\ wire.body.success /\ wire.body.data.user.has
C14_CheckAuthOutcome ==
    C14_Completed
        => /\ user = IF C14_Recognised THEN wire.body.data.user ELSE NoUser
           /\ ~isLoading /\ ~isCheckingAuth
           /\ ret.op \in {"checkAuth", "login", "signup"} /\ ret.how = "return"
           /\ isAuthenticated <=> C14_Recognised
C14_Witness ==
    /\ C14_Completed /\ C14_Recognised /\ ret.op = "checkAuth"
    /\ user = wire.body.data.user /\ user._id = "" /\ user.id = "b"
    /\ isAuthenticated

\* C15: every transmission of a request, a replay included, carries in its
\* Authorization header the token the store holds at the moment of sending,
\* and no Authorization header ("") when the store is empty.
C15_StoreAfter == IF accessToken' # "" THEN accessToken' ELSE sessionStorage'
C15_HeaderIsStoreAtSend ==
    [][\A op \in Ops :
          req'[op].sends = req[op].sends + 1
              => req'[op].authorization = C15_StoreAfter]_vars

\* C16: the token a body holds at data.tokens.accessToken, tokens.accessToken,
\* data.accessToken or accessToken, first match in that order ("" if none).
C16_Embedded(body) ==
    IF body.data.tokens.accessToken # "" THEN body.data.tokens.accessToken
    ELSE IF body.tokens.accessToken # "" THEN body.tokens.accessToken
    ELSE IF body.data.accessToken # "" THEN body.data.accessToken
    ELSE body.accessToken
\* the callers of the client that do not write the token store themselves
C16_Callers == {"checkAuth", "refreshToken", "request"}
C16_StoreBecomes(body) ==
    IF C16_Embedded(body) # ""
    THEN /\ accessToken' = C16_Embedded(body)
         /\ sessionStorage' = C16_Embedded(body)
    ELSE UNCHANGED <<accessToken, sessionStorage>>
\* C16 as stated: every response the client receives is inspected.
C16_EveryResponseInspected ==
    [][(wire'.op \in C16_Callers /\ wire'.on \in {"first", "replay"})
          => C16_StoreBecomes(wire'.body)]_vars

\* C16 amended: every 2xx response is inspected (first match in that order
\* stored, store unchanged when none); a response with an error status or
\* no response leaves the store unchanged; the response of the dispatcher's
\* refresh call is inspected in the same order only when it reports success.
C16_Inspects ==
    IF wire'.on = "refresh" THEN wire'.kind = "ok" /\ wire'.body.success
    ELSE wire'.kind = "ok"
C16_SuccessResponsesInspected ==
    [][(wire'.op \in C16_Callers /\ wire'.on # "none")
          => IF C16_Inspects THEN C16_StoreBecomes(wire'.body)
             ELSE UNCHANGED <<accessToken, sessionStorage>>]_vars
C16_Witness ==
    /\ wire.op = "request" /\ wire.on = "first" /\ wire.kind = "ok"
    /\ wire.body.data.tokens.accessToken = "t1"
    /\ wire.body.tokens.accessToken = "t2"
    /\ accessToken = "t1" /\ sessionStorage = "t1"

\* C17: refreshToken() returns true exactly when its refresh request reports
\* success, and whenever it returns false the current user is null.
C17_Reported ==
    wire.kind = "ok" /\ wire.on # "refresh" /\ wire.body.success
C17_FalseClearsUser ==
    ret.op = "refreshToken"
        => /\ wire.op = "refreshToken"
           /\ ret.auth.success <=> C17_Reported
           /\ ~ret.auth.success => user = NoUser

\* C18: the stored access token is gone from both slots whenever a refresh
\* attempt has failed (the dispatcher's refresh call after a 401, or
\* refreshToken()) and whenever logout has run, so that no later request
\* can carry the old token.
C18_RefreshFailed ==
    \/ wire.on = "refresh" /\ ~(wire.kind = "ok" /\ wire.body.success)
    \/ ret.op = "refreshToken" /\ ~ret.auth.success
C18_ClearedOnRefreshFailure ==
    (C18_RefreshFailed \/ ret.op = "logout")
        => accessToken = "" /\ sessionStorage = ""

\* C19: every call resolves; a request that ended in a transport failure, an
\* error response or a set-up error (a failed refresh included) gives its
\* caller {success: false, error} with a non-empty error: the envelope itself
\* for an apiClient call, the result of login and signup, false for
\* refreshToken; checkAuth and logout resolve with nothing.
C19_Failure ==
    /\ wire.op # "none" /\ req[wire.op].st = "idle"
    /\ \/ wire.kind \in {"request", "response", "setup"}
       \/ wire.on = "refresh" /\ ~wire.body.success
C19_Resolved ==
    ret.op # "none"
        => /\ ret.how \in {"return", "rejected"}
           /\ ret.how = "rejected"
                 => \/ ret.op = "checkAuth"
                    \/ ~ret.auth.success /\ ret.auth.error # NoText
C19_Enveloped ==
    C19_Failure
        => /\ ret.how = "return"
           /\ CASE wire.op = "request" ->
                      /\ ret.op = "request"
                      /\ ~ret.body.success /\ ret.body.error # NoText
                      /\ ret.body.data = NoData
                [] wire.op \in Forms ->
                      /\ ret.op = wire.op
                      /\ ~ret.auth.success /\ ret.auth.error # NoText
                      /\ ~ret.auth.user.has
                [] wire.op = "refreshToken" ->
                      ret.op = "refreshToken" /\ ~ret.auth.success
                [] wire.op = "logout" -> ret.op = "logout"
                [] OTHER -> ret.op \in {"checkAuth", "login", "signup"}
C19_FailuresAreEnvelopes == C19_Resolved /\ C19_Enveloped

\* C20: if every network call returns, every request in flight (issued,
\* refreshing or replayed) eventually ends, and when it ends the promise of
\* its caller resolves; a replayed request can only end: nothing follows one
\* replay.
C20_Terminates ==
    \A op \in Ops : (req[op].st # "idle") ~> (req[op].st = "idle")
C20_OneReplay ==
    [][\A op \in Ops :
          req[op].st = "replayed" => req'[op].st \in {"replayed", "idle"}]_vars
\* the request of login/signup ends when apiClient.post resolves into the
\* 200 ms delay; the promise of login/signup itself resolves later
C20_Awaited(op) == op \in Forms /\ call'[op].phase = "delay"
C20_Settles ==
    [][\A op \in Ops :
          (req[op].st # "idle" /\ req'[op].st = "idle")
              => ret'.op # "none" \/ C20_Awaited(op)]_vars
C20_Resolves ==
    [][\A op \in Ops :
          (req[op].st # "idle" /\ req'[op].st = "idle")
              => ret'.how = "return" \/ C20_Awaited(op)]_vars
C20_RequestsTerminateResolved ==
    C20_Terminates /\ C20_OneReplay /\ C20_Settles /\ C20_Resolves

\* C21: a successful signup response carrying a user and a token pair in any
\* of the three layouts login recognises (nested, flattened, doubly nested)
\* sets the canonical user, leaves the access token in the token store and
\* makes signup return {success: true, user, tokens}.
C21_Parsed(l, u, t) ==
    (wire'.op = "signup" /\ wire'.kind = "ok" /\ wire'.on # "refresh"
       /\ wire'.body = LayoutBody(l, u, t))
        => /\ user' = C7_Canonical(u)
           /\ call'["signup"] =
                 [phase |-> "delay", authResponse |-> C7_Result(u, t)]
           /\ accessToken' = (IF t.has THEN t.accessToken ELSE accessToken)
           /\ sessionStorage' = (IF t.has THEN t.accessToken ELSE sessionStorage)
C21_Returned ==
    (call["signup"].phase \in {"delay", "confirm"}
       /\ call'["signup"].phase = "idle")
        => ret' = [body |-> EmptyBody, op |-> "signup", how |-> "return",
                   auth |-> call["signup"].authResponse]
C21_SignupLayoutsAgree ==
    [][/\ \A l \in Layouts, u \in ServerUsers, t \in TokenPairs :
             C21_Parsed(l, u, t)
       /\ C21_Returned]_vars

\* C22: every non-null current user, whether set by login, by signup or by
\* checkAuth, is in the canonical shape: its identifier is under _id, taken
\* from the server object's _id when present and otherwise from its id.
C22_UserIsCanonical ==
    user.has => /\ user._id # ""
                /\ \E u \in ServerUsers : user = C7_Canonical(u)

\* C23: in a tab that is reloaded at any moment, the in-memory access token,
\* when present, equals the sessionStorage entry; the memory slot is emptied
\* only by setAccessToken(null), which empties sessionStorage too, or by a
\* reload, which keeps sessionStorage; and the first token read after a
\* reload (the mount effect, then the request of its checkAuth) returns the
\* sessionStorage token and leaves it in the memory slot.
C23_Mirrored == accessToken # "" => accessToken = sessionStorage
C23_Reloaded == mounted # "init" /\ mounted' = "init"
C23_Emptied ==
    (accessToken # "" /\ accessToken' = "")
        => IF C23_Reloaded THEN sessionStorage' = sessionStorage
           ELSE sessionStorage' = "" /\ ret'.op = "logout"
C23_Restored ==
    (mounted = "init" /\ mounted' = "mounted")
        => /\ sessionStorage' = sessionStorage
           /\ accessToken' = sessionStorage
           /\ req'["checkAuth"].sends = 1
           /\ req'["checkAuth"].authorization = sessionStorage
C24_CheckEnds ==
    /\ mounted = "unmounted"
    /\ req["checkAuth"].st # "idle" /\ req'["checkAuth"].st = "idle"
C24_Suppressed == C24_CheckEnds => user' = user /\ isLoading' = isLoading
C24_NotAborted ==
    (mounted = "mounted" /\ mounted' = "unmounted") => req' = req
C25_Provided(v) == v.type # "undefined"
C25_Name == C25_Provided(sync.body.username)
              \/ C25_Provided(sync.body.anilistUsername)
C25_Id == C25_Provided(sync.body.userId)
C25_Rejected == sync.phase = "responded" /\ sync.status = 400
C25_ExactlyOneAsStated ==
    sync.phase # "idle"
        => /\ ~C25_Rejected <=> (C25_Name # C25_Id)
           /\ (C25_Name /\ C25_Id)
                 => sync.error = <<"Cannot provide both username and userId">>
           /\ (~C25_Name /\ ~C25_Id)
                 => sync.error =
                       <<"Either username or userId must be provided.">>
           /\ C25_Rejected => sync.calls = 0

\* C25 amended: the rule holds for a body whose fields are well formed (each
\* absent, or a string of 1 to 50 characters, a positive integer, a
\* boolean), and the message for neither is 'Either username or userId must
\* be provided to sync a public profile'; a body with a malformed field is
\* rejected with the message of that field; every rejection answers 400
\* with a non-empty error before any AniList call.
C25_NameOk(v) ==
    v.type = "undefined"
      \/ (v.type = "string" /\ Len(v.chars) >= 1 /\ Len(v.chars) <= 50)
C25_IdOk(v) ==
    v.type = "undefined"
      \/ (v.type = "number" /\ v.tenths % 10 = 0 /\ v.tenths > 0)
C25_WellFormed ==
    /\ C25_NameOk(sync.body.username)
    /\ C25_NameOk(sync.body.anilistUsername)
    /\ C25_IdOk(sync.body.userId)
    /\ sync.body.force.type \in {"undefined", "boolean"}
C25_ExactlyOne ==
    sync.phase # "idle"
        => /\ C25_WellFormed
                 => /\ ~C25_Rejected <=> (C25_Name # C25_Id)
                    /\ (C25_Name /\ C25_Id)
                          => sync.error =
                                <<"Cannot provide both username and userId">>
                    /\ (~C25_Name /\ ~C25_Id)
                          => sync.error =
                                <<"Either username or userId must be provided to sync a public profile">>
           /\ ~C25_WellFormed
                 => /\ C25_Rejected
                    /\ sync.error \notin
                          {CannotProvideBoth, EitherMustBeProvided}
           /\ C25_Rejected => sync.calls = 0 /\ sync.error # NoText
           /\ sync.calls > 0 => ~C25_Rejected
\* the alias and a userId together are rejected as both
C25_Witness ==
    /\ C25_Rejected /\ sync.calls = 0
    /\ sync.body.username = Undefined
    /\ sync.body.anilistUsername = Str(<<"b", "o", "b">>)
    /\ sync.body.userId = Num(50)
    /\ sync.error = CannotProvideBoth

\* C26 as stated: when chat history is loaded, an entry whose timestamp is a
\* number v resolves to the instant v milliseconds if v > 10^12 and to
\* v * 1000 milliseconds otherwise.
C26_Millis(v) ==
    IF v.neg \/ ~MagGreater(v.mag, <<0, 0, 0, 0, 1>>)
      THEN IF v.mag = << >> THEN << >> ELSE <<0>> \o v.mag
      ELSE v.mag
C26_NumericTimestampResolved ==
    chat.phase \in {"loaded", "restored"}
        => \A i \in DOMAIN chat.history :
              LET v == chat.history[i].timestamp
              IN  v.type = "number"
                     => chat.messages[i].timestamp
                           = DateOf(v.neg, C26_Millis(v))

\* C26 amended: the value resolved is createdAt when the entry has one and
\* timestamp otherwise (a saved entry: always timestamp); when it is a
\* number v it resolves to v milliseconds if v > 10^12 and to v * 1000
\* milliseconds otherwise, provided that is within 8.64e15 milliseconds of
\* the epoch, and to the current time if not; 1700000000 and 1700000000000
\* resolve to the same instant.
C26_DateValue(msg) ==
    IF chat.phase = "loaded" /\ msg.createdAt # JsUndefined
      THEN msg.createdAt ELSE msg.timestamp
C26_InRange(mag) ==
    \/ Len(mag) < 6
    \/ Len(mag) = 6 /\ mag[6] < 8
    \/ Len(mag) = 6 /\ mag[6] = 8 /\ mag[5] < 640
    \/ mag = <<0, 0, 0, 0, 640, 8>>
C26_NumericDateValueResolved ==
    chat.phase \in {"loaded", "restored"}
        => \A i \in DOMAIN chat.history :
              LET v == C26_DateValue(chat.history[i])
                  resolved == chat.messages[i].timestamp
              IN  /\ v.type = "number"
                        => resolved = IF C26_InRange(C26_Millis(v))
                                        THEN DateOf(v.neg, C26_Millis(v))
                                        ELSE chat.now
                  /\ v \in {JsNumber(FALSE, <<0, 0, 700, 1>>),
                            JsNumber(FALSE, <<0, 0, 0, 700, 1>>)}
                        => resolved = DateOf(FALSE, <<0, 0, 0, 700, 1>>)
\* a history holding 1700000000 and 1700000000000, loaded as one instant
C26_Witness ==
    /\ chat.phase = "loaded"
    /\ Len(chat.history) = 2
    /\ chat.history[1] =
          [timestamp |-> JsNumber(FALSE, <<0, 0, 700, 1>>),
           createdAt |-> JsUndefined]
    /\ chat.history[2] =
          [timestamp |-> JsNumber(FALSE, <<0, 0, 0, 700, 1>>),
           createdAt |-> JsUndefined]
    /\ chat.messages[1].timestamp = chat.messages[2].timestamp
    /\ chat.messages[1].timestamp # chat.now

\* C27: whenever login or signup returns {success: true, user}, the user held
\* in auth state at that moment is non-null and equal to the returned user.
C27_ReturnedUserIsCurrent ==
    (ret.op \in {"login", "signup"} /\ ret.how = "return" /\ ret.auth.success)
        => user.has /\ user = ret.auth.user

\* C28: once logout() has completed, the current user and the stored access
\* token stay empty when the response of a request that was already in
\* flight arrives: no such response restores either of them.
C28_LogoutCompleted == ret.op = "logout" /\ accessToken = "" /\ ~user.has
C28_ResponseArrives == wire'.op # "none"
C28_StaysLoggedOut ==
    [][(C28_LogoutCompleted /\ C28_ResponseArrives)
          => (accessToken' = "" /\ sessionStorage' = "" /\ ~user'.has)]_vars

\* C29: isLoading is true whenever a checkAuth, login or signup call is in
\* flight, and false whenever none of them is in flight after the initial
\* on-mount check has completed.
C29_InFlight == \E op \in GuardedOps : inflight[op] > 0
C29_LoadingIffInFlight ==
    mounted # "init" => (isLoading <=> C29_InFlight)

\* C30: a login or signup call that returns {success: false}, for any reason,
\* leaves the token store as it was: the step in which the call's response
\* is processed and the failure returned changes neither the token in
\* memory nor the one in sessionStorage.
C30_ReturnsFailure == ret'.op \in Forms /\ ~ret'.auth.success
C30_FailureKeepsTokenStore ==
    [][C30_ReturnsFailure
          => (accessToken' = accessToken /\ sessionStorage' = sessionStorage)]_vars
====
